---- MODULE Spec2Model ----
(***************************************************************************)
(* Ad click fraud detection: the click-scoring pipeline (main.py predict)  *)
(* and the per-session aggregation in SQLite (database.py log_click and    *)
(* update_session_summary).                                                *)
(*                                                                         *)
(* Numbers.  Probabilities are floats in [0,1] in the code; here they are  *)
(* integers in thousandths (0.001 = 1, 0.1 = 100, 0.5 = 500, 0.8 = 800).   *)
(* Gaps are whole seconds, session durations tenths of a minute.  The      *)
(* wall-clock columns clicked_at / last_updated are left out: no decision  *)
(* of the pipeline reads them.                                             *)
(***************************************************************************)
EXTENDS Integers, Sequences, FiniteSets, TLC

VARIABLES
    app,              \* lifecycle of the FastAPI process: starting / serving / degraded / exited
    classifier,       \* model["classifier"] of main.py: "None" or "ANN"
    click_logs,       \* committed rows of table click_logs, in id order
    session_summary,  \* committed rows of table session_summary
    lock,             \* SQLite write lock: 0 when free, else the worker holding it
    pc,               \* per worker: position inside predict / log_click
    click,            \* per worker: the arguments predict passes to log_click
    existing,         \* per worker: result of the SELECT on session_summary
    resp,             \* per worker: the HTTP response being returned
    request,          \* per worker: the ClickData predict was called with, and the classifier's output for it
    db_ready,         \* init_database and insert_sample_data have run: the tables and the catalogue exist
    built,            \* FeatureBuilder.build: the click it was last called with and the row it returned
    advertisers,      \* rows of table advertisers
    sessions,         \* main.py sessions: auth session id -> advertiser
    issued,           \* number of auth session ids issued so far (uuid4 never repeats one)
    http              \* the last auth or reporting request, with its response

vars == <<app, classifier, click_logs, session_summary, lock, pc, click, existing, resp, request, db_ready,
          built, advertisers, sessions, issued, http>>

---------------------------------------------------------------------------
(* Bounds of the model *)

\* committed plus in-flight clicks in the single-worker specification
MaxClicks == 3
\* committed plus in-flight clicks in the two-worker specification
MaxConcClicks == 3
\* largest sampled time_gap_seconds
MaxGap == 2
\* calls of predict in the scoring specification
MaxScored == 1
\* step, in permille, of the classifier outputs sampled in the scoring specification
RawStride == 1
\* auth session ids issued in the authentication specification
MaxAuthSessions == 3
\* largest clicks_per_session given to the feature builder
MaxFeatClicks == 12
\* largest time_gap_seconds given to the feature builder, in tenths of a second
MaxFeatGap == 12
\* largest session_duration_minutes given to the feature builder, in tenths of a minute
MaxFeatDuration == 15

\* the two requests that run concurrently in the two-worker specification; the
\* single-worker specification uses worker 1 alone
Workers == {1, 2}
\* sampled gaps: a negative one, zero, and the positive ones
Gaps == (0 - 1)..MaxGap
\* raw classifier outputs, in thousandths
RawOutputs == {0, 900}

---------------------------------------------------------------------------
(* Program constants *)

\* main.py: fraud_prob = max(fraud_prob, 0.001)
ProbFloor == 1
\* main.py: is_fraud = fraud_prob >= 0.5
FraudCutoff == 500
\* main.py get_risk_level: prob < 0.1 is Low
LowCutoff == 100
\* main.py get_risk_level: prob < 0.8 is Medium
HighCutoff == 800
\* database.py: min_gap of a new session_summary row
MinGapSentinel == 999999
\* database.py: max_gap of a new session_summary row
InitialMaxGap == 0

model_name == "ANN Click Fraud Detection Model"

\* database.py insert_sample_data: the ads table after startup (id = index)
ads ==
    << [advertiser_id |-> 1, title |-> "Latest Smartphone"],
       [advertiser_id |-> 1, title |-> "Laptop Sale"],
       [advertiser_id |-> 2, title |-> "Summer Collection"],
       [advertiser_id |-> 2, title |-> "Designer Shoes"],
       [advertiser_id |-> 3, title |-> "New RPG Game"],
       [advertiser_id |-> 3, title |-> "Mobile Puzzle"] >>

NoAd == [advertiser_id |-> 0, title |-> "None"]

\* database.py get_ad_with_advertiser: the ad row, or None
get_ad_with_advertiser(ad_id) ==
    IF ad_id \in DOMAIN ads THEN ads[ad_id] ELSE NoAd

---------------------------------------------------------------------------
(* Sampled requests (ClickData of main.py) *)

\* (ad_id, clicks_per_session, session_duration_minutes, user_agent_category)
\* of the sampled requests for ads that exist
Variants ==
    { [ad_id |-> 1, clicks_per_session |-> 1,  session_duration_minutes |-> 5,  user_agent_category |-> 1],
      [ad_id |-> 3, clicks_per_session |-> 12, session_duration_minutes |-> 10, user_agent_category |-> 2] }

\* the same for an ad that does not exist
UnknownAd ==
    { [ad_id |-> 7, clicks_per_session |-> 1,  session_duration_minutes |-> 5,  user_agent_category |-> 1] }

ClickData(S, G, V) ==
    { [session_id |-> s,
       clicks_per_session |-> v.clicks_per_session,
       time_gap_seconds |-> g,
       session_duration_minutes |-> v.session_duration_minutes,
       ad_id |-> v.ad_id,
       user_agent_category |-> v.user_agent_category] :
      s \in S, g \in G, v \in V }

\* requests of the single-worker specification: every sampled gap and variant for
\* session s1, and a second session s2 with fewer of them
Requests ==
    ClickData({"s1"}, Gaps, Variants \cup UnknownAd)
    \cup ClickData({"s2"}, {0, MaxGap}, {v \in Variants : v.ad_id = 1})

\* requests of the two-worker specification: one session, positive gaps
ConcRequests == ClickData({"s1"}, 1..MaxGap, Variants \cup UnknownAd)

Sessions == {d.session_id : d \in Requests}

---------------------------------------------------------------------------
(* Pure helpers *)

Max(a, b) == IF a >= b THEN a ELSE b
Min(a, b) == IF a <= b THEN a ELSE b

\* variant: the Low tier reaches up to 0.6
get_risk_level_WideLow(prob) ==
    IF prob < 600 THEN "Low"
    ELSE IF prob < HighCutoff THEN "Medium"
    ELSE "High"

\* main.py get_risk_level
get_risk_level(prob) ==
    IF prob < LowCutoff THEN "Low"
    ELSE IF prob < HighCutoff THEN "Medium"
    ELSE "High"

\* variant: the classifier output is used as it comes
ClampProb_Raw(raw) == raw

\* main.py predict, lines 190-191: the clamped probability
ClampProb(raw) == Max(raw, ProbFloor)

\* variant: the verdict needs a probability above the cutoff
IsFraudVerdict_Above(prob) == prob > FraudCutoff

\* main.py predict, line 193
IsFraudVerdict(prob) == prob >= FraudCutoff

---------------------------------------------------------------------------
(* Table session_summary: update_session_summary of database.py *)

NoRow == [found |-> FALSE, min_gap |-> 0, max_gap |-> 0, is_fraud |-> FALSE]

SessionRows(table, session_id) == {r \in table : r.session_id = session_id}

\* database.py 233-234: SELECT min_gap, max_gap, is_fraud ... WHERE session_id = ?
\* followed by fetchone()
ExistingRow(table, session_id) ==
    IF SessionRows(table, session_id) = {} THEN NoRow
    ELSE LET r == CHOOSE x \in SessionRows(table, session_id) : TRUE
         IN  [found |-> TRUE, min_gap |-> r.min_gap, max_gap |-> r.max_gap,
              is_fraud |-> r.is_fraud]

\* variant: every gap, positive or not, competes for min_gap
NewMinGap_AnyGap(current_min_gap, time_gap_seconds) ==
    Min(current_min_gap, time_gap_seconds)

\* database.py 240: only a positive gap updates min_gap
NewMinGap(current_min_gap, time_gap_seconds) ==
    IF time_gap_seconds > 0 THEN Min(current_min_gap, time_gap_seconds)
    ELSE current_min_gap

\* variant: max_gap is the latest gap
NewMaxGap_Latest(current_max_gap, time_gap_seconds) == time_gap_seconds

\* database.py 241
NewMaxGap(current_max_gap, time_gap_seconds) ==
    Max(current_max_gap, time_gap_seconds)

\* variant: the flag follows the latest verdict
FinalIsFraud_Latest(existing_fraud, is_fraud) == is_fraud

\* variant: the flag of the first click is kept and later verdicts are dropped
FinalIsFraud_KeepOld(existing_fraud, is_fraud) == existing_fraud

\* database.py 244: once fraud is detected, it stays fraud
FinalIsFraud(existing_fraud, is_fraud) == existing_fraud \/ is_fraud

\* database.py 245: both branches of the conditional are the latest value
FinalFraudProb(final_is_fraud, fraud_probability) ==
    IF final_is_fraud THEN fraud_probability ELSE fraud_probability

\* variant: a session flagged as fraud keeps the highest tier
FinalRiskLevel_Sticky(final_is_fraud, risk_level) ==
    IF final_is_fraud THEN "High" ELSE risk_level

\* database.py 246: both branches of the conditional are the latest value
FinalRiskLevel(final_is_fraud, risk_level) ==
    IF final_is_fraud THEN risk_level ELSE risk_level

\* variant: the UPDATE also moves the row to the ad of the latest click
UpdateRow_FollowsAd(r, ex, c) ==
    [r EXCEPT
        !.ad_id = c.ad_id,
        !.advertiser_id = c.advertiser_id,
        !.clicks_per_session = c.clicks_per_session,
        !.session_duration_minutes = c.session_duration_minutes,
        !.min_gap = NewMinGap(ex.min_gap, c.time_gap_seconds),
        !.max_gap = NewMaxGap(ex.max_gap, c.time_gap_seconds),
        !.is_fraud = FinalIsFraud(ex.is_fraud, c.is_fraud),
        !.fraud_probability =
            FinalFraudProb(FinalIsFraud(ex.is_fraud, c.is_fraud), c.fraud_probability),
        !.risk_level =
            FinalRiskLevel(FinalIsFraud(ex.is_fraud, c.is_fraud), c.risk_level),
        !.model_used = c.model_used]

\* database.py 248-263: UPDATE session_summary SET ... WHERE session_id = ?
\* The row keeps its id, session_id, ad_id, advertiser_id and ad_title.
UpdateRow(r, ex, c) ==
    [r EXCEPT
        !.clicks_per_session = c.clicks_per_session,
        !.session_duration_minutes = c.session_duration_minutes,
        !.min_gap = NewMinGap(ex.min_gap, c.time_gap_seconds),
        !.max_gap = NewMaxGap(ex.max_gap, c.time_gap_seconds),
        !.is_fraud = FinalIsFraud(ex.is_fraud, c.is_fraud),
        !.fraud_probability =
            FinalFraudProb(FinalIsFraud(ex.is_fraud, c.is_fraud), c.fraud_probability),
        !.risk_level =
            FinalRiskLevel(FinalIsFraud(ex.is_fraud, c.is_fraud), c.risk_level),
        !.model_used = c.model_used]

\* id INTEGER PRIMARY KEY AUTOINCREMENT (database.py 69); rows are never deleted
NextSummaryId(table) ==
    IF table = {} THEN 1
    ELSE 1 + (CHOOSE m \in {r.id : r \in table} : \A r \in table : r.id <= m)

\* variant: INSERT OR REPLACE, which deletes the row and inserts one with a new id
UpdateSummary_Replace(table, ex, c) ==
    (table \ SessionRows(table, c.session_id)) \cup
    {[UpdateRow(r, ex, c) EXCEPT !.id = NextSummaryId(table)] :
        r \in SessionRows(table, c.session_id)}

\* variant: the UPDATE has no WHERE clause
RowSelected_All(r, c) == TRUE

\* database.py 262: WHERE session_id = ?
RowSelected(r, c) == r.session_id = c.session_id

UpdateSummary(table, ex, c) ==
    {IF RowSelected(r, c) THEN UpdateRow(r, ex, c) ELSE r : r \in table}

\* database.py 264-274: INSERT INTO session_summary; the first click's own gap
\* is not used, the row starts at (999999, 0)
InsertSummary(table, ad_title, c) ==
    table \cup
    { [id |-> NextSummaryId(table),
       session_id |-> c.session_id,
       ad_id |-> c.ad_id,
       advertiser_id |-> c.advertiser_id,
       ad_title |-> ad_title,
       clicks_per_session |-> c.clicks_per_session,
       session_duration_minutes |-> c.session_duration_minutes,
       min_gap |-> MinGapSentinel,
       max_gap |-> InitialMaxGap,
       is_fraud |-> c.is_fraud,
       fraud_probability |-> c.fraud_probability,
       risk_level |-> c.risk_level,
       model_used |-> c.model_used] }

\* database.py 236-274: the write update_session_summary makes, given what its
\* SELECT returned
WriteSummary(table, ex, c) ==
    IF ex.found THEN UpdateSummary(table, ex, c)
    ELSE InsertSummary(table, get_ad_with_advertiser(c.ad_id).title, c)

\* database.py 222-274: update_session_summary run without interruption
update_session_summary(table, c) ==
    WriteSummary(table, ExistingRow(table, c.session_id), c)

\* session_id TEXT UNIQUE NOT NULL (database.py 70): an INSERT of a second row
\* for the session raises sqlite3.IntegrityError
UniqueViolation(table, ex, c) ==
    ~ex.found /\ SessionRows(table, c.session_id) # {}

\* database.py 197-211: the click_logs row of a click; id = lastrowid
LogRow(logs, c) ==
    [id |-> Len(logs) + 1,
     ad_id |-> c.ad_id,
     advertiser_id |-> c.advertiser_id,
     session_id |-> c.session_id,
     clicks_per_session |-> c.clicks_per_session,
     time_gap_seconds |-> c.time_gap_seconds,
     session_duration_minutes |-> c.session_duration_minutes,
     user_agent_category |-> c.user_agent_category,
     is_fraud |-> c.is_fraud,
     fraud_probability |-> c.fraud_probability,
     risk_level |-> c.risk_level,
     model_used |-> c.model_used]

---------------------------------------------------------------------------
(* State machine *)

NoClick ==
    [ad_id |-> 0, advertiser_id |-> 0, session_id |-> "none",
     clicks_per_session |-> 0, time_gap_seconds |-> 0,
     session_duration_minutes |-> 0, user_agent_category |-> 0,
     is_fraud |-> FALSE, fraud_probability |-> 0, risk_level |-> "none",
     model_used |-> "none"]

NoResp == [status |-> 0, detail |-> "none"]

NoData ==
    [session_id |-> "none", clicks_per_session |-> 0, time_gap_seconds |-> 0,
     session_duration_minutes |-> 0, ad_id |-> 0, user_agent_category |-> 0]

NoRequest == [data |-> NoData, raw |-> 0]

\* main.py 196-208: the keyword arguments of the log_click call
LogClickArgs(d, ad_info, fraud_prob) ==
    [ad_id |-> d.ad_id,
     advertiser_id |-> ad_info.advertiser_id,
     session_id |-> d.session_id,
     clicks_per_session |-> d.clicks_per_session,
     time_gap_seconds |-> d.time_gap_seconds,
     session_duration_minutes |-> d.session_duration_minutes,
     user_agent_category |-> d.user_agent_category,
     is_fraud |-> IsFraudVerdict(fraud_prob),
     fraud_probability |-> fraud_prob,
     risk_level |-> get_risk_level(fraud_prob),
     model_used |-> model_name]

\* main.py 210-215: PredictionResponse
\* variant: the response carries the probability rounded down to two decimals
PredictionResponse_Rounded(c) ==
    [status |-> 200, detail |-> "ok",
     is_fraud |-> c.is_fraud,
     fraud_probability |-> (c.fraud_probability \div 10) * 10,
     risk_level |-> c.risk_level,
     model_used |-> c.model_used]

PredictionResponse(c) ==
    [status |-> 200, detail |-> "ok",
     is_fraud |-> c.is_fraud,
     fraud_probability |-> c.fraud_probability,
     risk_level |-> c.risk_level,
     model_used |-> c.model_used]

HTTPError(status_code, detail) == [status |-> status_code, detail |-> detail]

InFlight(W) == {q \in W : pc[q] \in {"predict", "insert_log", "select", "write", "commit"}}

\* nothing built yet
NoBuilt == [click |-> [clicks_per_session |-> 0, time_gap |-> 0, session_duration |-> 0,
                       user_agent_category |-> 0],
            row |-> [bot_likelihood_score |-> 0 - 1]]

\* database.py 105-115: the sample advertisers, all with password "demo123";
\* password_hash is modelled by the password it was computed from
SampleAdvertisers ==
    { [id |-> 1, name |-> "TechCorp", email |-> "ads@techcorp.com", password_hash |-> "demo123"],
      [id |-> 2, name |-> "FashionBrand", email |-> "marketing@fashionbrand.com", password_hash |-> "demo123"],
      [id |-> 3, name |-> "GameStudio", email |-> "promo@gamestudio.com", password_hash |-> "demo123"] }

\* no auth or reporting request made yet
NoHttp ==
    [op |-> "none", cookie |-> 0, advertiser_id |-> 0, email |-> "none", password |-> "none",
     status |-> 0, data |-> 0 - 1]

Init ==
    /\ app = "starting"
    /\ classifier = "None"
    /\ click_logs = << >>
    /\ session_summary = {}
    /\ lock = 0
    /\ pc = [p \in Workers |-> "idle"]
    /\ click = [p \in Workers |-> NoClick]
    /\ existing = [p \in Workers |-> NoRow]
    /\ resp = [p \in Workers |-> NoResp]
    /\ request = [p \in Workers |-> NoRequest]
    /\ db_ready = FALSE
    /\ built = NoBuilt
    /\ advertisers = {}
    /\ sessions = {}
    /\ issued = 0
    /\ http = NoHttp

\* main.py 131-138 with load_model 48-69: the model loads, the tables are created
\* and the sample data inserted
StartupOk ==
    /\ app = "starting"
    /\ classifier' = "ANN"
    /\ db_ready' = TRUE
    /\ advertisers' = SampleAdvertisers
    /\ app' = "serving"
    /\ UNCHANGED <<click_logs, session_summary, lock, pc, click, existing, resp, request,
                 built, sessions, issued, http>>

\* main.py 71-73 and 135-137: load_model raises RuntimeError out of the startup
\* handler before init_database and insert_sample_data are called.  What the
\* server does with the failed handler is its lifespan setting: it stops, or it
\* goes on serving without the model and without the rest of the startup.
StartupFailed ==
    /\ app = "starting"
    /\ app' \in {"exited", "degraded"}
    /\ UNCHANGED <<classifier, click_logs, session_summary, lock, pc, click, existing, resp, request, db_ready,
                 built, advertisers, sessions, issued, http>>

\* main.py 170-171: a POST /predict arrives with body d; raw is what the loaded
\* classifier outputs for the features of this request (a function of the
\* request that the source does not determine)
Receive(p, D, R, bound) ==
    /\ app \in {"serving", "degraded"}
    /\ pc[p] = "idle"
    /\ Len(click_logs) + Cardinality(InFlight(Workers)) < bound
    /\ \E d \in D, raw \in R :
         request' = [request EXCEPT ![p] = [data |-> d, raw |-> raw]]
    /\ pc' = [pc EXCEPT ![p] = "predict"]
    /\ UNCHANGED <<app, classifier, click_logs, session_summary, lock, click, existing, resp, db_ready,
                 built, advertisers, sessions, issued, http>>

\* variant: predict goes on without looking the ad up
AdFound_Any(ad_id) == TRUE

\* main.py 176-178: the ad lookup of predict
AdFound(ad_id) == get_ad_with_advertiser(ad_id) # NoAd

\* variant: predict goes on without looking at the classifier
ModelLoaded_Unchecked == TRUE

\* main.py 173: model["classifier"] is not None
ModelLoaded == classifier # "None"

\* main.py 173-194: predict up to the log_click call
Predict(p) ==
    /\ pc[p] = "predict"
    /\ IF ~ModelLoaded
       THEN /\ resp' = [resp EXCEPT ![p] = HTTPError(503, "Model not loaded")]
            /\ pc' = [pc EXCEPT ![p] = "done"]
            /\ request' = [request EXCEPT ![p] = NoRequest]
            /\ UNCHANGED click
       ELSE IF ~AdFound(request[p].data.ad_id)
       THEN /\ resp' = [resp EXCEPT ![p] = HTTPError(404, "Ad not found")]
            /\ pc' = [pc EXCEPT ![p] = "done"]
            /\ request' = [request EXCEPT ![p] = NoRequest]
            /\ UNCHANGED click
       ELSE /\ click' = [click EXCEPT ![p] =
                  LogClickArgs(request[p].data,
                               get_ad_with_advertiser(request[p].data.ad_id),
                               ClampProb(request[p].raw))]
            /\ pc' = [pc EXCEPT ![p] = "insert_log"]
            /\ UNCHANGED <<resp, request>>
    /\ UNCHANGED <<app, classifier, click_logs, session_summary, lock, existing, db_ready,
                 built, advertisers, sessions, issued, http>>

\* variant: the transaction does not take the write lock with its first statement
WriteLockFree_NoLock(p) == TRUE

\* SQLite admits one writer: the INSERT that opens log_click's transaction takes
\* the database write lock, which is held until commit or rollback
WriteLockFree(p) == lock = 0

\* database.py 189-211: connect, INSERT INTO click_logs (opens the transaction)
InsertLog(p) ==
    /\ pc[p] = "insert_log"
    /\ WriteLockFree(p)
    /\ lock' = p
    /\ pc' = [pc EXCEPT ![p] = "select"]
    /\ UNCHANGED <<app, classifier, click_logs, session_summary, click, existing, resp, request, db_ready,
                 built, advertisers, sessions, issued, http>>

\* database.py 197: the INSERT finds the database locked by another writer for
\* the whole busy timeout and raises sqlite3.OperationalError
Busy(p) ==
    /\ pc[p] = "insert_log"
    /\ lock # 0
    /\ lock # p
    /\ pc' = [pc EXCEPT ![p] = "done"]
    /\ resp' = [resp EXCEPT ![p] = HTTPError(500, "database is locked")]
    /\ click' = [click EXCEPT ![p] = NoClick]
    /\ request' = [request EXCEPT ![p] = NoRequest]
    /\ UNCHANGED <<app, classifier, click_logs, session_summary, lock, existing, db_ready,
                 built, advertisers, sessions, issued, http>>

\* database.py 229-234: the SELECT of the ad title and of the session's summary
SelectExisting(p) ==
    /\ pc[p] = "select"
    /\ existing' = [existing EXCEPT ![p] = ExistingRow(session_summary, click[p].session_id)]
    /\ pc' = [pc EXCEPT ![p] = "write"]
    /\ UNCHANGED <<app, classifier, click_logs, session_summary, lock, click, resp, request, db_ready,
                 built, advertisers, sessions, issued, http>>

\* Release of the write lock when the transaction of p ends
Unlock(p) == IF lock = p THEN 0 ELSE lock

\* database.py 236-274: the UPDATE or INSERT statement, still uncommitted
ExecuteWrite(p) ==
    /\ pc[p] = "write"
    /\ IF UniqueViolation(session_summary, existing[p], click[p])
       THEN /\ pc' = [pc EXCEPT ![p] = "done"]
            /\ resp' = [resp EXCEPT ![p] = HTTPError(500, "UNIQUE constraint failed")]
            /\ lock' = Unlock(p)
            /\ click' = [click EXCEPT ![p] = NoClick]
            /\ request' = [request EXCEPT ![p] = NoRequest]
            /\ existing' = [existing EXCEPT ![p] = NoRow]
       ELSE /\ pc' = [pc EXCEPT ![p] = "commit"]
            /\ UNCHANGED <<resp, lock, click, existing, request>>
    /\ UNCHANGED <<app, classifier, click_logs, session_summary, db_ready,
                 built, advertisers, sessions, issued, http>>

\* variant: the log keeps only the latest click of a session
CommittedLogs_LatestPerSession(logs, c) ==
    Append(SelectSeq(logs, LAMBDA r : r.session_id # c.session_id), LogRow(logs, c))

\* variant: a click equal to one already logged is not logged again
CommittedLogs_Dedup(logs, c) ==
    IF \E i \in 1..Len(logs) : [logs[i] EXCEPT !.id = 0] = [LogRow(logs, c) EXCEPT !.id = 0]
    THEN logs
    ELSE Append(logs, LogRow(logs, c))

\* database.py 218: what conn.commit() makes durable: the click_logs row and the
\* summary write, together
CommittedLogs(logs, c) == Append(logs, LogRow(logs, c))

\* database.py 218-220 and main.py 210-215: commit, close, return the response
Commit(p) ==
    /\ pc[p] = "commit"
    /\ click_logs' = CommittedLogs(click_logs, click[p])
    /\ session_summary' = WriteSummary(session_summary, existing[p], click[p])
    /\ lock' = Unlock(p)
    /\ pc' = [pc EXCEPT ![p] = "done"]
    /\ resp' = [resp EXCEPT ![p] = PredictionResponse(click[p])]
    /\ click' = [click EXCEPT ![p] = NoClick]
    /\ request' = [request EXCEPT ![p] = NoRequest]
    /\ existing' = [existing EXCEPT ![p] = NoRow]
    /\ UNCHANGED <<app, classifier, db_ready,
                 built, advertisers, sessions, issued, http>>

\* variant: the INSERT into click_logs is committed on its own, as the earlier
\* log_click did, so a later failure leaves the row behind
Abort_KeepsLog(p) ==
    /\ pc[p] \in {"select", "write", "commit"}
    /\ click_logs' = CommittedLogs(click_logs, click[p])
    /\ lock' = Unlock(p)
    /\ pc' = [pc EXCEPT ![p] = "done"]
    /\ resp' = [resp EXCEPT ![p] = HTTPError(500, pc[p])]
    /\ click' = [click EXCEPT ![p] = NoClick]
    /\ request' = [request EXCEPT ![p] = NoRequest]
    /\ existing' = [existing EXCEPT ![p] = NoRow]
    /\ UNCHANGED <<app, classifier, session_summary, db_ready,
                 built, advertisers, sessions, issued, http>>

\* database.py 197-218: an exception after the INSERT and before the commit has
\* returned leaves log_click without commit; the connection is dropped and SQLite
\* rolls the open transaction back
Abort(p) ==
    /\ pc[p] \in {"select", "write", "commit"}
    /\ lock' = Unlock(p)
    /\ pc' = [pc EXCEPT ![p] = "done"]
    /\ resp' = [resp EXCEPT ![p] = HTTPError(500, pc[p])]
    /\ click' = [click EXCEPT ![p] = NoClick]
    /\ request' = [request EXCEPT ![p] = NoRequest]
    /\ existing' = [existing EXCEPT ![p] = NoRow]
    /\ UNCHANGED <<app, classifier, click_logs, session_summary, db_ready,
                 built, advertisers, sessions, issued, http>>

\* The response leaves the server (the locals of the finished call are gone
\* already); the worker takes the next request
Return(p) ==
    /\ pc[p] = "done"
    /\ pc' = [pc EXCEPT ![p] = "idle"]
    /\ resp' = [resp EXCEPT ![p] = NoResp]
    /\ UNCHANGED <<app, classifier, click_logs, session_summary, lock, click, existing, request, db_ready,
                 built, advertisers, sessions, issued, http>>

\* One uvicorn process, as run_server.py starts it: predict is a coroutine that
\* never awaits, so requests are handled one at a time
Next ==
    \/ StartupOk
    \/ StartupFailed
    \/ Receive(1, Requests, RawOutputs, MaxClicks)
    \/ Predict(1)
    \/ InsertLog(1)
    \/ SelectExisting(1)
    \/ ExecuteWrite(1)
    \/ Commit(1)
    \/ Abort(1)
    \/ Return(1)

Spec == Init /\ [][Next]_vars

\* Two worker processes on the same database file, clicks of one session
NextConc ==
    \/ StartupOk
    \/ StartupFailed
    \/ \E p \in Workers :
         \/ Receive(p, ConcRequests, RawOutputs, MaxConcClicks)
         \/ Predict(p)
         \/ InsertLog(p)
         \/ Busy(p)
         \/ SelectExisting(p)
         \/ ExecuteWrite(p)
         \/ Commit(p)
         \/ Abort(p)
         \/ Return(p)

SpecConc == Init /\ [][NextConc]_vars

---------------------------------------------------------------------------
(* Vocabulary of the properties *)

\* the committed click_logs rows of a session, oldest first
LogsOf(session_id) == SelectSeq(click_logs, LAMBDA r : r.session_id = session_id)

LastOf(seq) == seq[Len(seq)]

SessionIds == {click_logs[i].session_id : i \in 1..Len(click_logs)}

GapsOf(session_id) ==
    {LogsOf(session_id)[i].time_gap_seconds : i \in 1..Len(LogsOf(session_id))}

MinOfPositive(G) ==
    IF {g \in G : g > 0} = {} THEN MinGapSentinel
    ELSE CHOOSE m \in {g \in G : g > 0} : \A g \in {h \in G : h > 0} : m <= g

MaxOfAll(G) == CHOOSE m \in G \cup {InitialMaxGap} : \A g \in G \cup {InitialMaxGap} : m >= g

\* the summary table a serial run of the clicks in logs leaves, from an empty table
RECURSIVE SerialSummary(_)
SerialSummary(logs) ==
    IF logs = << >> THEN {}
    ELSE update_session_summary(SerialSummary(SubSeq(logs, 1, Len(logs) - 1)), LastOf(logs))

---------------------------------------------------------------------------
(* C1: once the session_summary row of a session has is_fraud true, every   *)
(* later step leaves the session with a row whose is_fraud is true,         *)
(* whatever the verdicts of the later clicks.                               *)
C1_StickyFraud ==
    [][\A r \in session_summary :
          r.is_fraud =>
            /\ SessionRows(session_summary', r.session_id) # {}
            /\ \A r2 \in SessionRows(session_summary', r.session_id) : r2.is_fraud]_vars

\* a session flagged as fraud whose latest committed click was scored genuine
C1_Witness ==
    \E r \in session_summary :
        /\ r.is_fraud
        /\ Len(LogsOf(r.session_id)) >= 2
        /\ ~LastOf(LogsOf(r.session_id)).is_fraud

(* C2: after every committed click, min_gap of the session's summary is the *)
(* minimum of the strictly positive gaps submitted for the session, the     *)
(* first click's gap included, or the sentinel when there is none.          *)
C2_MinGapOfPositiveGaps ==
    \A r \in session_summary : r.min_gap = MinOfPositive(GapsOf(r.session_id))

(* C3: after every committed click, max_gap of the session's summary is the *)
(* maximum of all gaps submitted for the session, the first click's gap     *)
(* included, starting from 0.                                               *)
C3_MaxGapOfAllGaps ==
    \A r \in session_summary : r.max_gap = MaxOfAll(GapsOf(r.session_id))

(* C4: in every reachable state the is_fraud of a session's summary row is  *)
(* the logical OR of is_fraud over the committed click_logs rows of that    *)
(* session.                                                                 *)
C4_FraudIsOrOfClicks ==
    \A r \in session_summary :
        r.is_fraud = (\E i \in 1..Len(click_logs) :
                         /\ click_logs[i].session_id = r.session_id
                         /\ click_logs[i].is_fraud)

\* a session with a genuine first click, a fraudulent click after it, and the flag set
C4_Witness ==
    \E r \in session_summary :
        /\ Len(LogsOf(r.session_id)) >= 2
        /\ ~LogsOf(r.session_id)[1].is_fraud
        /\ LogsOf(r.session_id)[2].is_fraud
        /\ r.is_fraud

(* C5: after every committed click of a session, fraud_probability,         *)
(* risk_level, model_used, clicks_per_session and session_duration_minutes  *)
(* of the summary are those of the click of the session committed last,     *)
(* also when the sticky is_fraud is true and that click was scored genuine, *)
(* and also when clicks of the session are handled concurrently.            *)
C5_LatestScoreFields ==
    \A r \in session_summary :
        LET l == LastOf(LogsOf(r.session_id))
        IN  /\ r.fraud_probability = l.fraud_probability
            /\ r.risk_level = l.risk_level
            /\ r.model_used = l.model_used
            /\ r.clicks_per_session = l.clicks_per_session
            /\ r.session_duration_minutes = l.session_duration_minutes

\* two requests of the session answered at the same time, the one committed last
\* genuine and with other counts than the one before it, the flag still set
C5_Witness ==
    /\ \A p \in Workers : pc[p] = "done" /\ resp[p].status = 200
    /\ \E r \in session_summary :
         LET logs == LogsOf(r.session_id)
         IN  /\ Len(logs) >= 2
             /\ r.is_fraud
             /\ ~LastOf(logs).is_fraud
             /\ logs[Len(logs) - 1].is_fraud
             /\ logs[Len(logs) - 1].clicks_per_session # LastOf(logs).clicks_per_session
             /\ r.risk_level = "Low"

(* C6: there is at most one session_summary row per session id, it exists   *)
(* exactly when a click of the session has been committed, and every step   *)
(* keeps each existing row (same id, same session id): later clicks update  *)
(* it in place and nothing deletes it.                                      *)
C6_OneRowPerSession ==
    /\ [](\A s \in Sessions :
            Cardinality(SessionRows(session_summary, s)) =
                (IF Len(LogsOf(s)) > 0 THEN 1 ELSE 0))
    /\ [][\A r \in session_summary :
            \E r2 \in session_summary' : r2.id = r.id /\ r2.session_id = r.session_id]_vars

\* two sessions with their rows, one of them updated by a second click
C6_Witness ==
    /\ Cardinality(session_summary) = 2
    /\ \E r \in session_summary :
         /\ Len(LogsOf(r.session_id)) = 2
         /\ r.id = 1
         /\ r.clicks_per_session = LastOf(LogsOf(r.session_id)).clicks_per_session
         /\ r.clicks_per_session # LogsOf(r.session_id)[1].clicks_per_session

(* C7: every step either leaves both tables as they are, or appends exactly *)
(* one click_logs row and applies that row's summary create/update; and in  *)
(* every state a session has a summary row exactly when it has click_logs   *)
(* rows.  A run that fails after its INSERT leaves both tables unchanged.   *)
C7_LogAndSummaryTogether ==
    /\ [](\A s \in Sessions :
            (Len(LogsOf(s)) > 0) <=> (SessionRows(session_summary, s) # {}))
    /\ [][\/ /\ click_logs' = click_logs
             /\ session_summary' = session_summary
          \/ /\ Len(click_logs') = Len(click_logs) + 1
             /\ SubSeq(click_logs', 1, Len(click_logs)) = click_logs
             /\ session_summary' =
                    update_session_summary(session_summary, LastOf(click_logs'))]_vars

\* a run that failed at the commit, after the INSERT and the summary write, with
\* an earlier click of the same kind committed
C7_Witness ==
    /\ pc[1] = "done"
    /\ resp[1] = HTTPError(500, "commit")
    /\ Len(click_logs) = 1
    /\ Cardinality(session_summary) = 1

Perms(n) == {f \in [1..n -> 1..n] : \A i, j \in 1..n : f[i] = f[j] => i = j}

Permuted(seq, f) == [i \in 1..Len(seq) |-> seq[f[i]]]

(* C9: for the clicks committed for a session, min_gap, max_gap and         *)
(* is_fraud of the summary are what applying those same clicks in any other *)
(* order gives.                                                             *)
C9_OrderIndependent ==
    \A r \in session_summary :
        \A f \in Perms(Len(LogsOf(r.session_id))) :
            \A t \in SerialSummary(Permuted(LogsOf(r.session_id), f)) :
                /\ t.min_gap = r.min_gap
                /\ t.max_gap = r.max_gap
                /\ t.is_fraud = r.is_fraud

(* C10: applying again the click a session's summary was last updated with  *)
(* (same gap, verdict, probability, tier, model, counts) leaves min_gap,    *)
(* max_gap, is_fraud, fraud_probability, risk_level and model_used of the   *)
(* stored row unchanged, also when that click is the session's first.       *)
C10_ReplayIdempotent ==
    \A r \in session_summary :
        \A t \in SessionRows(
                    update_session_summary(session_summary, LastOf(LogsOf(r.session_id))),
                    r.session_id) :
            /\ t.min_gap = r.min_gap
            /\ t.max_gap = r.max_gap
            /\ t.is_fraud = r.is_fraud
            /\ t.fraud_probability = r.fraud_probability
            /\ t.risk_level = r.risk_level
            /\ t.model_used = r.model_used

-----------------------------------------------------------------------------
\* FeatureBuilder.build of feature_builder.py.  Here time_gap is in tenths of a
\* second, session_duration in tenths of a minute and bot_score in tenths: the
\* float sums 0.3 + 0.4, 0.3 + 0.3 and 0.3 + 0.4 + 0.3 of the code are exactly
\* the doubles 0.7, 0.6 and 1.0, so the comparisons are those of the tenths.

\* the clicks given to the builder
FeatureClicks ==
    [clicks_per_session : 0..MaxFeatClicks,
     time_gap : (0 - 1)..MaxFeatGap,
     session_duration : (0 - 1)..MaxFeatDuration,
     user_agent_category : 1..3]

\* feature_builder.py 14: clicks_per_session / max(session_duration_minutes, 0.1),
\* kept as a fraction
click_frequency(c) ==
    [num |-> c.clicks_per_session * 10, den |-> Max(c.session_duration, 1)]

\* f > n for a fraction f with positive denominator
FractionAbove(f, n) == f.num > n * f.den

\* variant: a gap of exactly one second counts as sub-second
SubSecond_Inclusive(time_gap) == time_gap <= 10

\* feature_builder.py 19: time_gap_seconds < 1.0
SubSecond(time_gap) == time_gap < 10

\* feature_builder.py 16-23
bot_score(c) ==
    Min((IF c.clicks_per_session > 10 THEN 3 ELSE 0)
          + (IF SubSecond(c.time_gap) THEN 4 ELSE 0)
          + (IF FractionAbove(click_frequency(c), 8) THEN 3 ELSE 0),
        10)

\* variant: the flags are set from 0.7 on
UsageFlag_AtLeast(score) == IF score >= 7 THEN 1 ELSE 0

\* feature_builder.py 63-64: 1 if bot_score > 0.7 else 0
UsageFlag(score) == IF score > 7 THEN 1 ELSE 0

\* feature_builder.py 26-66: the feature row
build(c) ==
    [device_type |-> IF c.user_agent_category = 1 THEN "Desktop"
                     ELSE IF c.user_agent_category = 2 THEN "Mobile" ELSE "Tablet",
     browser |-> "Chrome",
     operating_system |-> "Windows",
     ad_position |-> "Top",
     device_ip_reputation |-> IF bot_score(c) > 6 THEN "Bad" ELSE "Good",
     click_duration |-> c.time_gap,
     scroll_depth |-> Min(c.clicks_per_session * 10, 100),
     mouse_movement |-> Min(c.clicks_per_session * 40, 400),
     keystrokes_detected |-> IF bot_score(c) > 6 THEN 0 ELSE 2,
     click_frequency |-> click_frequency(c),
     time_since_last_click |-> c.time_gap,
     VPN_usage |-> UsageFlag(bot_score(c)),
     proxy_usage |-> UsageFlag(bot_score(c)),
     bot_likelihood_score |-> bot_score(c)]

\* the call of FeatureBuilder.build, for any click
Build ==
    /\ built = NoBuilt
    /\ \E c \in FeatureClicks : built' = [click |-> c, row |-> build(c)]
    /\ UNCHANGED <<app, classifier, click_logs, session_summary, lock, pc, click, existing, resp,
                   request, db_ready, advertisers, sessions, issued, http>>

NextFeatures == Build

SpecFeatures == Init /\ [][NextFeatures]_vars

-----------------------------------------------------------------------------
\* Scoring of one request, over the whole range of classifier outputs

\* main.py 190: the classifier's sigmoid output, in permille: 0.000 .. 1.000 in
\* steps of RawStride, with the floor, the cutoffs and their neighbours
ScoreRaws ==
    {r \in 0..1000 : r % RawStride = 0}
        \cup {t + e : t \in {ProbFloor, LowCutoff, FraudCutoff, HighCutoff}, e \in {0 - 1, 0, 1}}
        \cup {1000}

\* the request scored: a click of session s1 on ad 1
ScoreRequests == ClickData({"s1"}, {MaxGap}, {v \in Variants : v.ad_id = 1})

NextScore ==
    \/ StartupOk
    \/ StartupFailed
    \/ Receive(1, ScoreRequests, ScoreRaws, MaxScored)
    \/ Predict(1)
    \/ InsertLog(1)
    \/ SelectExisting(1)
    \/ ExecuteWrite(1)
    \/ Commit(1)
    \/ Abort(1)
    \/ Return(1)

SpecScore == Init /\ [][NextScore]_vars

-----------------------------------------------------------------------------
\* Two server processes handling clicks of two sessions

\* clicks of sessions s1 and s2 on ad 1
SessionRequests == ClickData({"s1", "s2"}, {MaxGap}, {v \in Variants : v.ad_id = 1})

NextSessions ==
    \/ StartupOk
    \/ StartupFailed
    \/ \E p \in Workers :
         \/ Receive(p, SessionRequests, RawOutputs, MaxConcClicks)
         \/ Predict(p)
         \/ InsertLog(p)
         \/ Busy(p)
         \/ SelectExisting(p)
         \/ ExecuteWrite(p)
         \/ Commit(p)
         \/ Abort(p)
         \/ Return(p)

SpecSessions == Init /\ [][NextSessions]_vars

-----------------------------------------------------------------------------
\* Clicks of one session scored into every tier

\* classifier outputs at and next to the floor and the cutoffs
TierRaws ==
    {0, 1000} \cup
    {t + e : t \in {LowCutoff, FraudCutoff, HighCutoff}, e \in {0 - 1, 0}}

NextTiers ==
    \/ StartupOk
    \/ StartupFailed
    \/ Receive(1, ScoreRequests, TierRaws, MaxClicks)
    \/ Predict(1)
    \/ InsertLog(1)
    \/ SelectExisting(1)
    \/ ExecuteWrite(1)
    \/ Commit(1)
    \/ Abort(1)
    \/ Return(1)

SpecTiers == Init /\ [][NextTiers]_vars

-----------------------------------------------------------------------------
\* Authentication and reporting (main.py).  The handlers are coroutines without
\* an await, so each request is one step of the single server process.

\* sampled request bodies: a sample advertiser's email and a new one, the sample
\* password and another
Emails == {"ads@techcorp.com", "new@shop.com"}
Passwords == {"demo123", "other"}

\* session_id cookies presented: a value the server never issued, no cookie, and
\* the ids the server issues
ForgedCookie == 0 - 1
NoCookie == 0
Cookies == {ForgedCookie, NoCookie} \cup 1..MaxAuthSessions

\* advertiser ids in the path of the reporting endpoints
PathIds == {1, 2, 4}

\* the body carries no data
NoBody == 0 - 1

\* database.py 344: hash_password; SHA-256 is modelled by its argument, distinct
\* passwords having distinct hashes
hash_password(password) == password

\* id INTEGER PRIMARY KEY AUTOINCREMENT (database.py 22); rows are never deleted
NextAdvertiserId == Cardinality(advertisers) + 1

\* database.py 346-363: create_advertiser; None (here 0) when the email exists
create_advertiser(email) ==
    IF \E a \in advertisers : a.email = email THEN 0 ELSE NextAdvertiserId

\* database.py 365-380: authenticate_advertiser; the rows that match
authenticate_advertiser(email, password) ==
    {[id |-> a.id, name |-> a.name, email |-> a.email] :
        a \in {x \in advertisers : x.email = email /\ x.password_hash = hash_password(password)}}

\* main.py 120-121: the registry entries of the cookie; empty when the cookie is
\* absent or not in sessions
SessionsOf(cookie) ==
    IF cookie = NoCookie THEN {} ELSE {x \in sessions : x.session_id = cookie}

\* main.py 119-127: get_current_advertiser succeeds
Authenticated(cookie) == SessionsOf(cookie) # {}

\* main.py 125: sessions[session_id]
CurrentAdvertiser(cookie) == (CHOOSE x \in SessionsOf(cookie) : TRUE).advertiser

HttpResult(op, cookie, advertiser_id, email, password, status, data) ==
    [op |-> op, cookie |-> cookie, advertiser_id |-> advertiser_id, email |-> email,
     password |-> password, status |-> status, data |-> data]

AuthFrame ==
    UNCHANGED <<app, classifier, click_logs, session_summary, lock, pc, click, existing, resp,
                request, db_ready, built>>

\* main.py 146-156: POST /auth/signup.  Without the tables create_advertiser
\* raises sqlite3.OperationalError, which nothing catches: 500.
Signup ==
    /\ app \in {"serving", "degraded"}
    /\ issued < MaxAuthSessions
    /\ \E email \in Emails, password \in Passwords :
         IF ~db_ready
         THEN /\ http' = HttpResult("signup", NoCookie, 0, email, password, 500, NoBody)
              /\ UNCHANGED <<advertisers, sessions, issued>>
         ELSE IF create_advertiser(email) = 0
         THEN /\ http' = HttpResult("signup", NoCookie, 0, email, password, 400, NoBody)
              /\ UNCHANGED <<advertisers, sessions, issued>>
         ELSE /\ advertisers' = advertisers \cup
                    {[id |-> create_advertiser(email), name |-> "New", email |-> email,
                      password_hash |-> hash_password(password)]}
              /\ issued' = issued + 1
              /\ sessions' = sessions \cup
                    {[session_id |-> issued + 1,
                      advertiser |-> [id |-> create_advertiser(email), name |-> "New", email |-> email]]}
              /\ http' = HttpResult("signup", NoCookie, 0, email, password, 200, NoBody)
    /\ AuthFrame

\* main.py 158-167: POST /auth/login
Login ==
    /\ app \in {"serving", "degraded"}
    /\ issued < MaxAuthSessions
    /\ \E email \in Emails, password \in Passwords :
         IF ~db_ready
         THEN /\ http' = HttpResult("login", NoCookie, 0, email, password, 500, NoBody)
              /\ UNCHANGED <<sessions, issued>>
         ELSE IF authenticate_advertiser(email, password) = {}
         THEN /\ http' = HttpResult("login", NoCookie, 0, email, password, 401, NoBody)
              /\ UNCHANGED <<sessions, issued>>
         ELSE /\ issued' = issued + 1
              /\ sessions' = sessions \cup
                    {[session_id |-> issued + 1,
                      advertiser |-> CHOOSE a \in authenticate_advertiser(email, password) : TRUE]}
              /\ http' = HttpResult("login", NoCookie, 0, email, password, 200, NoBody)
    /\ UNCHANGED advertisers
    /\ AuthFrame

\* variant: logout only deletes the cookie
SessionsAfterLogout_Kept(cookie) == sessions

\* main.py 298-300: del sessions[session_id] when the cookie is registered
SessionsAfterLogout(cookie) == sessions \ SessionsOf(cookie)

\* main.py 295-303: POST /auth/logout
Logout ==
    /\ app \in {"serving", "degraded"}
    /\ \E cookie \in Cookies :
         /\ sessions' = SessionsAfterLogout(cookie)
         /\ http' = HttpResult("logout", cookie, 0, "none", "none", 200, NoBody)
    /\ UNCHANGED <<advertisers, issued>>
    /\ AuthFrame

\* main.py 305-308: GET /auth/me
Me ==
    /\ app \in {"serving", "degraded"}
    /\ \E cookie \in Cookies :
         http' = IF ~Authenticated(cookie)
                 THEN HttpResult("me", cookie, 0, "none", "none", 401, NoBody)
                 ELSE HttpResult("me", cookie, 0, "none", "none", 200, CurrentAdvertiser(cookie).id)
    /\ UNCHANGED <<advertisers, sessions, issued>>
    /\ AuthFrame

\* variant: the path id is not compared with the authenticated advertiser
OwnAdvertiser_Any(advertiser, advertiser_id) == TRUE

\* main.py 380 and 405: advertiser["id"] != advertiser_id is false
OwnAdvertiser(advertiser, advertiser_id) == advertiser.id = advertiser_id

\* main.py 380-387 and 405-414, behind get_current_advertiser: the response of a
\* reporting endpoint; data is the advertiser whose statistics or sessions the
\* body holds
ReportResponse(op, cookie, advertiser_id) ==
    IF ~Authenticated(cookie)
    THEN HttpResult(op, cookie, advertiser_id, "none", "none", 401, NoBody)
    ELSE IF ~OwnAdvertiser(CurrentAdvertiser(cookie), advertiser_id)
    THEN HttpResult(op, cookie, advertiser_id, "none", "none", 403, NoBody)
    ELSE HttpResult(op, cookie, advertiser_id, "none", "none", 200, advertiser_id)

\* main.py 373-390: GET /advertiser/{advertiser_id}/stats
get_stats ==
    /\ app \in {"serving", "degraded"}
    /\ \E cookie \in Cookies, advertiser_id \in PathIds :
         http' = ReportResponse("stats", cookie, advertiser_id)
    /\ UNCHANGED <<advertisers, sessions, issued>>
    /\ AuthFrame

\* main.py 397-418: GET /advertiser/{advertiser_id}/clicks
get_clicks ==
    /\ app \in {"serving", "degraded"}
    /\ \E cookie \in Cookies, advertiser_id \in PathIds :
         http' = ReportResponse("clicks", cookie, advertiser_id)
    /\ UNCHANGED <<advertisers, sessions, issued>>
    /\ AuthFrame

NextAuth ==
    \/ StartupOk
    \/ StartupFailed
    \/ Signup
    \/ Login
    \/ Logout
    \/ Me
    \/ get_stats
    \/ get_clicks

SpecAuth == Init /\ [][NextAuth]_vars

-----------------------------------------------------------------------------
\* Failures of the scoring request

\* the step in which the predict call of worker p leaves its first part
PredictStep(p) == pc[p] = "predict" /\ pc'[p] # "predict"

TablesUnchanged == click_logs' = click_logs /\ session_summary' = session_summary

C12_NoModelRejected ==
    [][\A p \in Workers :
          (PredictStep(p) /\ classifier = "None")
              => /\ resp'[p] = [status |-> 503, detail |-> "Model not loaded"]
                 /\ pc'[p] = "done"
                 /\ click'[p] = NoClick
                 /\ classifier' = "None"
                 /\ TablesUnchanged]_vars

\* A 503 is being returned by a process that serves without a classifier
C12_Witness ==
    /\ app = "degraded"
    /\ classifier = "None"
    /\ resp[1].status = 503

\* C18: when the model could not be loaded at process start, the process still
\* serves and the rest of the startup has run (the tables and the catalogue that
\* health, authentication, ad catalogue and reporting read exist); only scoring
\* is unavailable.
C18_RestOfServiceStarts ==
    (app # "starting" /\ classifier = "None") => (app # "exited" /\ db_ready)

-----------------------------------------------------------------------------
\* Risk policy and probability floor

\* the scoring results in the state: the log_click arguments of the calls in
\* progress and the bodies of the 200 responses
ScoringResults ==
    {click[p] : p \in {q \in Workers : click[q] # NoClick}}
        \cup {resp[p] : p \in {q \in Workers : resp[q].status = 200}}

\* C13: for every probability p in (0,1] (permille 1..1000) the scoring result
\* has is_fraud exactly when p >= 0.5, and tier Low when p < 0.1, Medium when
\* 0.1 <= p < 0.8, High when p >= 0.8; so p = 0.5 gives (true, Medium) and
\* p = 0.05 gives (false, Low).
C13_RiskPolicy ==
    \A r \in {x \in ScoringResults : x.fraud_probability \in 1..1000} :
        /\ r.is_fraud <=> (r.fraud_probability >= 500)
        /\ (r.fraud_probability < 100) => r.risk_level = "Low"
        /\ (r.fraud_probability >= 100 /\ r.fraud_probability < 800) => r.risk_level = "Medium"
        /\ (r.fraud_probability >= 800) => r.risk_level = "High"
        /\ (r.fraud_probability = 500) => (r.is_fraud /\ r.risk_level = "Medium")
        /\ (r.fraud_probability = 50) => (~r.is_fraud /\ r.risk_level = "Low")

\* A response is being returned for p = 0.5: fraud, Medium
C13_Witness ==
    /\ resp[1].status = 200
    /\ resp[1].fraud_probability = 500
    /\ resp[1].is_fraud
    /\ resp[1].risk_level = "Medium"

\* the probabilities the pipeline has returned, logged and stored
StoredProbabilities ==
    {r.fraud_probability : r \in ScoringResults}
        \cup {click_logs[i].fraud_probability : i \in 1..Len(click_logs)}
        \cup {r.fraud_probability : r \in session_summary}

\* C14: for every raw classifier output in [0,1], exactly 0 included, the
\* probability predict computes is the output raised to the floor 0.001, and
\* every probability returned, logged or stored lies in (0,1]: never 0, never
\* under the floor.
C14_ProbabilityFloor ==
    /\ [](\A x \in StoredProbabilities : x >= 1 /\ x <= 1000)
    /\ [][\A p \in Workers :
            (PredictStep(p) /\ pc'[p] = "insert_log")
                => click'[p].fraud_probability =
                       (IF request[p].raw < 1 THEN 1 ELSE request[p].raw)]_vars

\* A raw output of exactly 0 was scored, and the probability about to be
\* committed and returned for it is the floor
C14_Witness ==
    /\ pc[1] = "commit"
    /\ request[1].raw = 0
    /\ click[1].fraud_probability = 1

-----------------------------------------------------------------------------
\* The two tables

\* the step in which the transaction of worker p commits
CommitStep(p) == pc[p] = "commit" /\ pc'[p] = "done" /\ resp'[p].status = 200

\* C15: a session_summary row changes (in any field) only in the step that
\* commits a click of its own session: a click of session A leaves the row of
\* every other session B as it was, whatever else is in progress.
C15_OtherSessionsUntouched ==
    [][\A r \in session_summary :
          (r \notin session_summary')
              => \E p \in Workers : CommitStep(p) /\ click[p].session_id = r.session_id]_vars

\* Both sessions have a row and the last committed click was a later click of
\* s1, whose UPDATE ran with the row of s2 in the table
C15_Witness ==
    /\ \E r \in session_summary : r.session_id = "s2"
    /\ \E r \in session_summary : r.session_id = "s1" /\ r.max_gap = MaxGap
    /\ click_logs # <<>>
    /\ click_logs[Len(click_logs)].session_id = "s1"

\* C16: click_logs is append-only: every step leaves each committed row where it
\* was and as it was, and can only add rows behind them; rows of session_summary
\* are the ones that change after their creation.
C16_LogAppendOnly ==
    [][/\ Len(click_logs') >= Len(click_logs)
       /\ \A i \in 1..Len(click_logs) : click_logs'[i] = click_logs[i]]_vars

\* The log is full and a summary row has been rewritten since its creation
C16_Witness ==
    /\ Len(click_logs) = MaxClicks
    /\ \E r \in session_summary : r.max_gap > InitialMaxGap

\* the step in which the call of worker p ends with a 200 response
SuccessStep(p) == resp[p].status # 200 /\ resp'[p].status = 200

\* C17: no deduplication: a step adds as many click_logs rows as requests succeed
\* in it, one each; the row added is the submitted click, and the summary of its
\* session is rewritten from it, also when the same click was submitted before.
\* From the empty log, k successful submissions of a session leave k rows of it.
C17_EverySuccessLogged ==
    [][/\ Len(click_logs') =
              Len(click_logs) + Cardinality({p \in Workers : SuccessStep(p)})
       /\ \A p \in Workers : SuccessStep(p) =>
              /\ click_logs'[Len(click_logs')].session_id = request[p].data.session_id
              /\ click_logs'[Len(click_logs')].ad_id = request[p].data.ad_id
              /\ click_logs'[Len(click_logs')].time_gap_seconds = request[p].data.time_gap_seconds
              /\ click_logs'[Len(click_logs')].clicks_per_session = request[p].data.clicks_per_session
              /\ \E r \in session_summary' :
                    /\ r.session_id = request[p].data.session_id
                    /\ r.clicks_per_session = request[p].data.clicks_per_session
                    /\ r.fraud_probability = click_logs'[Len(click_logs')].fraud_probability]_vars

\* The same click was submitted three times and the log holds three rows for it
C17_Witness ==
    /\ Len(click_logs) = 3
    /\ \A i \in 1..3 : [click_logs[i] EXCEPT !.id = 0] = [click_logs[1] EXCEPT !.id = 0]

-----------------------------------------------------------------------------
\* Gap bookkeeping of an existing summary

\* C19: when the session of a committed click already has a summary row, with
\* g the click's gap and v its verdict the row becomes: min_gap the smaller of
\* the old min_gap and g if g > 0, the old min_gap if g <= 0; max_gap the larger
\* of the old max_gap and g; is_fraud the old flag or v.
C19_ExistingSummaryUpdate ==
    [][\A p \in Workers : \A r \in session_summary :
          (CommitStep(p) /\ r.session_id = request[p].data.session_id)
              => \E n \in session_summary' :
                    /\ n.session_id = r.session_id
                    /\ n.min_gap =
                          (IF request[p].data.time_gap_seconds > 0
                              /\ request[p].data.time_gap_seconds < r.min_gap
                           THEN request[p].data.time_gap_seconds
                           ELSE r.min_gap)
                    /\ n.max_gap =
                          (IF request[p].data.time_gap_seconds > r.max_gap
                           THEN request[p].data.time_gap_seconds
                           ELSE r.max_gap)
                    /\ n.is_fraud = (r.is_fraud \/ click[p].is_fraud)]_vars

\* A session whose min_gap had come down to 1 received a click with a negative
\* gap, and min_gap is still 1
C19_Witness ==
    /\ Len(click_logs) >= 3
    /\ click_logs[Len(click_logs)].time_gap_seconds < 0
    /\ \E r \in session_summary :
          /\ r.session_id = click_logs[Len(click_logs)].session_id
          /\ r.min_gap = 1
          /\ r.max_gap = 1

\* C20: every session_summary row has max_gap >= 0 and either min_gap still at
\* the sentinel 999999 or 0 < min_gap <= max_gap, whatever gaps (zero, positive,
\* negative) the clicks carried.
C20_GapBounds ==
    \A r \in session_summary :
        /\ r.max_gap >= 0
        /\ \/ r.min_gap = 999999
           \/ (0 < r.min_gap /\ r.min_gap <= r.max_gap)

\* A session that received a negative gap has left the sentinel: 0 < min_gap < max_gap
C20_Witness ==
    \E r \in session_summary :
        /\ r.min_gap = 1
        /\ r.max_gap = MaxGap
        /\ \E i \in 1..Len(click_logs) :
              /\ click_logs[i].session_id = r.session_id
              /\ click_logs[i].time_gap_seconds < 0

-----------------------------------------------------------------------------
\* Derived features

\* a feature row has been built
Built == built # NoBuilt

\* C21: for every click, bot_score is 0.3 if clicks_per_session > 10, plus 0.4 if
\* time_gap_seconds < 1.0, plus 0.3 if click_frequency > 8, capped at 1.0, with
\* click_frequency = clicks_per_session / max(session_duration_minutes, 0.1);
\* it is one of 0, 0.3, 0.4, 0.6, 0.7, 1.0, and clicks 12, gap 0.5 s, duration
\* 1.0 min gives 1.0.
C21_BotScore ==
    Built =>
        LET c == built.click
            row == built.row
            floored == IF c.session_duration < 1 THEN 1 ELSE c.session_duration
            manyClicks == IF c.clicks_per_session > 10 THEN 3 ELSE 0
            subSecond == IF c.time_gap < 10 THEN 4 ELSE 0
            frequent == IF c.clicks_per_session * 10 > 8 * floored THEN 3 ELSE 0
            total == manyClicks + subSecond + frequent
        IN  /\ row.click_frequency.num * floored = c.clicks_per_session * 10 * row.click_frequency.den
            /\ row.bot_likelihood_score = (IF total > 10 THEN 10 ELSE total)
            /\ row.bot_likelihood_score \in {0, 3, 4, 6, 7, 10}
            /\ (c.clicks_per_session = 12 /\ c.time_gap = 5 /\ c.session_duration = 10)
                  => row.bot_likelihood_score = 10

\* The claim's example was built: clicks 12, gap 0.5 s, duration 1.0 min, score 1.0
C21_Witness ==
    /\ built.click.clicks_per_session = 12
    /\ built.click.time_gap = 5
    /\ built.click.session_duration = 10
    /\ built.row.bot_likelihood_score = 10

\* C22: in every feature row VPN_usage and proxy_usage are both 1 exactly when
\* bot_score > 0.7, else both 0, and device_ip_reputation is Bad exactly when
\* bot_score > 0.6, else Good; a set flag comes with Bad reputation, and a
\* bot_score of exactly 0.7 gives Bad reputation with both flags 0.
C22_FlagsAndReputation ==
    Built =>
        LET row == built.row
        IN  /\ row.VPN_usage = (IF row.bot_likelihood_score > 7 THEN 1 ELSE 0)
            /\ row.proxy_usage = row.VPN_usage
            /\ row.device_ip_reputation =
                  (IF row.bot_likelihood_score > 6 THEN "Bad" ELSE "Good")
            /\ (row.VPN_usage = 1 \/ row.proxy_usage = 1) => row.device_ip_reputation = "Bad"
            /\ (row.bot_likelihood_score = 7)
                  => (row.device_ip_reputation = "Bad" /\ row.VPN_usage = 0 /\ row.proxy_usage = 0)

\* A row with bot_score exactly 0.7 was built: Bad reputation, flags 0
C22_Witness ==
    /\ built.row.bot_likelihood_score = 7
    /\ built.row.device_ip_reputation = "Bad"
    /\ built.row.VPN_usage = 0
    /\ built.row.proxy_usage = 0

-----------------------------------------------------------------------------
\* The scoring result and the rows

\* C23: the result returned by a successful scoring request (is_fraud,
\* fraud_probability, risk_level, model_used) is the one in the click_logs row
\* the request appended, and its is_fraud is the verdict of this click
\* (p >= 0.5), not the sticky flag of the session's summary.
C23_ResponseIsLoggedResult ==
    [][\A p \in Workers : SuccessStep(p) =>
          LET row == click_logs'[Len(click_logs')]
          IN  /\ Len(click_logs') = Len(click_logs) + 1
              /\ row.session_id = request[p].data.session_id
              /\ resp'[p].is_fraud = row.is_fraud
              /\ resp'[p].fraud_probability = row.fraud_probability
              /\ resp'[p].risk_level = row.risk_level
              /\ resp'[p].model_used = row.model_used
              /\ resp'[p].is_fraud <=> (resp'[p].fraud_probability >= 500)]_vars

\* A request is being answered is_fraud = false, as logged, while the summary
\* of its session is flagged
C23_Witness ==
    /\ resp[1].status = 200
    /\ ~resp[1].is_fraud
    /\ click_logs # <<>>
    /\ ~click_logs[Len(click_logs)].is_fraud
    /\ \E r \in session_summary :
          r.session_id = click_logs[Len(click_logs)].session_id /\ r.is_fraud

\* the first committed click of a session
FirstOf(session_id) == LogsOf(session_id)[1]

\* C24: the ad_id, advertiser_id and ad_title of a session_summary row are those
\* of the session's first click, and stay so when later clicks of the session
\* reference another ad or an ad of another advertiser.
C24_AdFieldsOfFirstClick ==
    \A r \in session_summary :
        /\ LogsOf(r.session_id) # <<>>
        /\ r.ad_id = FirstOf(r.session_id).ad_id
        /\ r.advertiser_id = FirstOf(r.session_id).advertiser_id
        /\ r.ad_title = ads[FirstOf(r.session_id).ad_id].title

\* A session that started on ad 1 later clicked ad 3 of another advertiser, and
\* its summary still names ad 1
C24_Witness ==
    \E r \in session_summary :
        /\ r.ad_id = 1
        /\ r.advertiser_id = 1
        /\ Len(LogsOf(r.session_id)) >= 2
        /\ LastOf(LogsOf(r.session_id)).ad_id = 3
        /\ LastOf(LogsOf(r.session_id)).advertiser_id = 2

\* C25: every click_logs row with risk_level High has is_fraud, and every row
\* with is_fraud has risk_level Medium or High.  (Rows of session_summary are not
\* bound by this: the flag is sticky, the tier is the latest click's.)
C25_LogTierMatchesVerdict ==
    \A i \in 1..Len(click_logs) :
        /\ (click_logs[i].risk_level = "High") => click_logs[i].is_fraud
        /\ click_logs[i].is_fraud => click_logs[i].risk_level \in {"Medium", "High"}

\* The log holds a Medium row with is_fraud and a Medium row without, and the
\* summary of the session carries is_fraud with risk_level Low
C25_Witness ==
    /\ \E i \in 1..Len(click_logs) :
          click_logs[i].risk_level = "Medium" /\ click_logs[i].is_fraud
    /\ \E i \in 1..Len(click_logs) :
          click_logs[i].risk_level = "Medium" /\ ~click_logs[i].is_fraud
    /\ \E r \in session_summary : r.is_fraud /\ r.risk_level = "Low"

-----------------------------------------------------------------------------
\* Authentication and reporting

\* the auth session ids registered in sessions
Registered == {x.session_id : x \in sessions}

\* the requests that go through get_current_advertiser
Guarded == {"me", "stats", "clicks"}

\* C26: a session id authenticates a request only if it is registered, and it is
\* registered only by a successful signup or login, as a new id, until a logout
\* with it; after that logout every request carrying the id is answered 401,
\* since an id that was issued and is no longer registered never is again; a
\* login that matches no advertiser and a signup with a registered email create
\* no session.
C26_SessionRegistry ==
    [][/\ (http'.op \in Guarded /\ http'.cookie \notin Registered)
            => (http'.status = 401 /\ http'.data = 0 - 1)
       /\ (Registered' \ Registered # {})
            => /\ http'.op \in {"signup", "login"}
               /\ http'.status = 200
               /\ Registered' \ Registered = {issued + 1}
               /\ issued' = issued + 1
       /\ (http'.op = "logout") => http'.cookie \notin Registered'
       /\ \A n \in 1..issued : (n \notin Registered) => (n \notin Registered')
       /\ (/\ http'.op = "login"
           /\ ~\E a \in advertisers :
                 a.email = http'.email /\ a.password_hash = http'.password)
            => (http'.status # 200 /\ sessions' = sessions)
       /\ (http'.op = "signup" /\ \E a \in advertisers : a.email = http'.email)
            => (http'.status # 200 /\ sessions' = sessions /\ advertisers' = advertisers)]_vars

\* A request carrying an id that was issued and then logged out is being
\* rejected with 401, while another session is still registered
C26_Witness ==
    /\ http.op \in Guarded
    /\ http.cookie \in 1..issued
    /\ http.cookie \notin Registered
    /\ http.status = 401
    /\ Registered # {}

\* C27: /advertiser/{advertiser_id}/stats and /clicks return data only when the
\* session of the request is registered for the advertiser whose id is
\* advertiser_id; with another advertiser's id the answer is 403, without a
\* registered session 401, and neither carries data.
C27_ReportsOwnDataOnly ==
    [][(http'.op \in {"stats", "clicks"}) =>
          LET owners == {x.advertiser.id : x \in {y \in sessions : y.session_id = http'.cookie}}
          IN  /\ (owners = {}) => (http'.status = 401 /\ http'.data = 0 - 1)
              /\ (owners # {} /\ http'.advertiser_id \notin owners)
                    => (http'.status = 403 /\ http'.data = 0 - 1)
              /\ (http'.data # 0 - 1)
                    => /\ http'.advertiser_id \in owners
                       /\ http'.data = http'.advertiser_id
                       /\ http'.status = 200]_vars

\* A signed-up advertiser (id 4) asked for the statistics of advertiser 1 and is
\* being refused with 403
C27_Witness ==
    /\ http.op = "stats"
    /\ http.status = 403
    /\ http.advertiser_id = 1
    /\ \E x \in sessions : x.session_id = http.cookie /\ x.advertiser.id = 4

====
